---------------------------- MODULE Spec2Model ----------------------------
(***************************************************************************)
(* glTF -> GLB conversion (src/index.js, class GLTFToGLBConverter).        *)
(*                                                                         *)
(* A document is a function from member names to values, as the parsed     *)
(* JSON object is: a member that is absent is absent from the DOMAIN, and  *)
(* `delete o.k` removes k from the DOMAIN.  Text is a TLA+ string; a       *)
(* binary buffer is a sequence of bytes (0..255).                          *)
(***************************************************************************)
EXTENDS Integers, Sequences, FiniteSets, TLC

VARIABLES
    folder,        \* the input folder: file name -> bytes (absent = no file)
    gltfData,      \* the parsed input document (line 42)
    modifiedGltf,  \* the working copy patched in place (line 45)
    binaryChunks,  \* the list of byte segments (line 49)
    totalSize,     \* the running total (line 50)
    i,             \* loop index of the buffer loop and of the image loop
    pc,            \* position inside convertGLTFToGLB
    cleanGltf,     \* createGLB's copy of the document, the one serialized
    glbBuffer,     \* the container written to the output file (line 146)
    listing,       \* convertAll: what readdirSync returns
    gltfFiles,     \* convertAll: the filtered list (lines 20-21)
    k,             \* convertAll: position of the for-of loop
    attempted,     \* convertAll: the files handed to convertGLTFToGLB, in order
    logged,        \* convertAll: the console lines, in order
    bpc            \* convertAll: position inside convertAll

vars == <<folder, gltfData, modifiedGltf, binaryChunks, totalSize, i, pc,
          cleanGltf, glbBuffer, listing, gltfFiles, k, attempted, logged, bpc>>

convVars == <<folder, gltfData, modifiedGltf, binaryChunks, totalSize, i, pc,
              cleanGltf, glbBuffer>>
batchVars == <<listing, gltfFiles, k, attempted, logged, bpc>>

-----------------------------------------------------------------------------
(* Bounds of the model.                                                    *)
MaxItems == 3
MaxBinLen == 9
MaxFiles == 3

-----------------------------------------------------------------------------
(* Generic helpers: objects, strings, bytes.                               *)

Has(o, key) == key \in DOMAIN o

Without(o, key) == [m \in DOMAIN o \ {key} |-> o[m]]

With(o, key, v) == [m \in DOMAIN o \cup {key} |-> IF m = key THEN v ELSE o[m]]

EmptyObject == [m \in {} |-> 0]

CharAt(s, n) == SubSeq(s, n, n)

StartsWith(s, prefix) ==
    /\ Len(s) >= Len(prefix)
    /\ SubSeq(s, 1, Len(prefix)) = prefix

EndsWith(s, suffix) ==
    /\ Len(s) >= Len(suffix)
    /\ SubSeq(s, Len(s) - Len(suffix) + 1, Len(s)) = suffix

RECURSIVE Concat(_)
Concat(list) ==
    IF list = <<>> THEN <<>> ELSE Head(list) \o Concat(Tail(list))

RECURSIVE SumLen(_)
SumLen(list) ==
    IF list = <<>> THEN 0 ELSE Len(Head(list)) + SumLen(Tail(list))

Fill(n, b) == [j \in 1..n |-> b]

AsciiLow == " !\"#$%&'()*+,-./0123456789:;<=>?@ABCDEFGHIJKLMNOPQRSTUVWXYZ[\\]^_"

AsciiHigh == "abcdefghijklmnopqrstuvwxyz{|}~"

AsciiCode ==
    [c \in {CharAt(AsciiLow, n) : n \in 1..Len(AsciiLow)}
             \cup {CharAt(AsciiHigh, n) : n \in 1..Len(AsciiHigh)} |->
       IF \E n \in 1..Len(AsciiLow) : CharAt(AsciiLow, n) = c
       THEN 31 + CHOOSE n \in 1..Len(AsciiLow) : CharAt(AsciiLow, n) = c
       ELSE 96 + CHOOSE n \in 1..Len(AsciiHigh) : CharAt(AsciiHigh, n) = c]

Utf8(s) == [n \in 1..Len(s) |-> AsciiCode[CharAt(s, n)]]

UInt32LE(v) ==
    << v % 256, (v \div 256) % 256, (v \div 65536) % 256, (v \div 16777216) % 256 >>

ReadUInt32LE(buf, at) ==
    buf[at + 1] + 256 * buf[at + 2] + 65536 * buf[at + 3] + 16777216 * buf[at + 4]

-----------------------------------------------------------------------------
(* JSON.stringify on the members this program reads and writes.  Members   *)
(* are written in one fixed order per object; numbers in decimal; strings  *)
(* quoted (none of the strings here needs an escape).                      *)

Digit(d) == CharAt("0123456789", d + 1)

RECURSIVE NumberToString(_)
NumberToString(n) ==
    IF n < 10 THEN Digit(n) ELSE NumberToString(n \div 10) \o Digit(n % 10)

Quote(s) == "\"" \o s \o "\""

NumberKeys == {"buffer", "byteOffset", "byteLength", "bufferView"}

StringKeys == {"uri", "mimeType", "version", "generator"}

KeyOrder ==
    << "asset", "generator", "version", "buffers", "uri", "buffer",
       "byteOffset", "byteLength", "bufferViews", "bufferView", "mimeType",
       "images" >>

RECURSIVE JoinWith(_, _)
JoinWith(parts, sep) ==
    IF parts = <<>> THEN ""
    ELSE IF Len(parts) = 1 THEN parts[1]
    ELSE parts[1] \o sep \o JoinWith(Tail(parts), sep)

RECURSIVE Stringify(_, _)
Stringify(key, v) ==
    IF key \in NumberKeys THEN NumberToString(v)
    ELSE IF key \in StringKeys THEN Quote(v)
    ELSE IF key \in {"buffers", "bufferViews", "images"}
         THEN "[" \o JoinWith([n \in 1..Len(v) |-> Stringify("", v[n])], ",") \o "]"
    ELSE LET keys == SelectSeq(KeyOrder, LAMBDA m : m \in DOMAIN v)
         IN "{" \o JoinWith([n \in 1..Len(keys) |->
                               Quote(keys[n]) \o ":" \o Stringify(keys[n], v[keys[n]])],
                            ",") \o "}"

JSONStringify(doc) == Stringify("", doc)

-----------------------------------------------------------------------------
(* createGLB (lines 154-212).                                              *)

PaddingAlways(n) == 4 - (n % 4)

Padding(n) == (4 - (n % 4)) % 4

Clean(gltfData_) ==
    IF ~Has(gltfData_, "asset")
    THEN With(gltfData_, "asset", [version |-> "2.0"])
    ELSE gltfData_

TotalLengthBinAlways(jsonChunkLength, binaryChunkLength) ==
    12 + 8 + jsonChunkLength + 8 + binaryChunkLength

TotalLength(jsonChunkLength, binaryChunkLength) ==
    12 + 8 + jsonChunkLength
       + (IF binaryChunkLength > 0 THEN 8 + binaryChunkLength ELSE 0)

createGLB(gltfData_, binaryBuffer) ==
    LET gltfBuffer == Utf8(JSONStringify(Clean(gltfData_)))
        jsonLength == Len(gltfBuffer)
        jsonChunkLength == jsonLength + Padding(jsonLength)
        paddedJsonBuffer == gltfBuffer \o Fill(jsonChunkLength - jsonLength, 32)
        binaryLength == Len(binaryBuffer)
        binaryChunkLength == binaryLength + Padding(binaryLength)
        paddedBinaryBuffer == binaryBuffer \o Fill(binaryChunkLength - binaryLength, 0)
        totalLength == TotalLength(jsonChunkLength, binaryChunkLength)
        header == UInt32LE(1179937895) \o UInt32LE(2) \o UInt32LE(totalLength)
        jsonChunkHeader == UInt32LE(jsonChunkLength) \o UInt32LE(1313821514)
        binaryChunkHeader == UInt32LE(binaryChunkLength) \o UInt32LE(5130562)
    IN header \o jsonChunkHeader \o paddedJsonBuffer
         \o (IF binaryChunkLength > 0
             THEN binaryChunkHeader \o paddedBinaryBuffer
             ELSE <<>>)

-----------------------------------------------------------------------------
(* The file system and the pieces of convertGLTFToGLB (lines 40-147).       *)

\* path.join(this.inputFolder, uri): the names here are relative file names.
PathJoin(uri) == uri

existsSync(path) == path \in DOMAIN folder

readFileSync(path) == folder[path]

\* `o.uri && !o.uri.startsWith('data:')` (lines 56, 98)
IsExternal(o) == Has(o, "uri") /\ o.uri # "" /\ ~StartsWith(o.uri, "data:")

Members(doc, key) == IF Has(doc, key) THEN doc[key] ELSE <<>>

ViewMatchesAny(bufferView, idx) == TRUE

\* `bufferView.buffer === i` (line 65)
ViewMatches(bufferView, idx) == bufferView.buffer = idx

RetargetViewNoShift(bufferView, total) ==
    With(With(bufferView, "byteOffset",
              IF Has(bufferView, "byteOffset") THEN bufferView.byteOffset ELSE 0),
         "buffer", 0)

\* lines 66-67
RetargetView(bufferView, total) ==
    With(With(bufferView, "byteOffset",
              (IF Has(bufferView, "byteOffset") THEN bufferView.byteOffset ELSE 0)
                  + total),
         "buffer", 0)

\* lines 63-70: every view of buffer idx is moved to buffer 0
RetargetViews(doc, idx, total) ==
    IF Has(doc, "bufferViews")
    THEN [doc EXCEPT !["bufferViews"] =
            [n \in 1..Len(@) |->
               IF ViewMatches(@[n], idx) THEN RetargetView(@[n], total) ELSE @[n]]]
    ELSE doc

\* lines 72-78 and 120-127: the bytes, then the padding if any
Pushed(chunks, total, data) ==
    LET padding == Padding(total + Len(data))
    IN IF padding > 0
       THEN Append(Append(chunks, data), Fill(padding, 0))
       ELSE Append(chunks, data)

Advanced(total, data) == total + Len(data) + Padding(total + Len(data))

\* path.extname: from the last '.' of the name, unless the name has none or
\* only starts with one
ExtName(name) ==
    LET dots == {n \in 1..Len(name) : CharAt(name, n) = "."}
    IN IF dots = {} \/ dots = {1} THEN ""
       ELSE LET last == CHOOSE n \in dots : \A m \in dots : m <= n
            IN SubSeq(name, last, Len(name))

UpperCase == "ABCDEFGHIJKLMNOPQRSTUVWXYZ"

LowerCase == "abcdefghijklmnopqrstuvwxyz"

LowerChar(c) ==
    IF \E n \in 1..Len(UpperCase) : CharAt(UpperCase, n) = c
    THEN CharAt(LowerCase, CHOOSE n \in 1..Len(UpperCase) : CharAt(UpperCase, n) = c)
    ELSE c

RECURSIVE ToLowerCase(_)
ToLowerCase(s) ==
    IF s = "" THEN "" ELSE LowerChar(CharAt(s, 1)) \o ToLowerCase(Tail(s))

mimeTypes ==
    [e \in {".jpg", ".jpeg", ".png", ".gif", ".bmp", ".webp"} |->
       CASE e = ".jpg" -> "image/jpeg"
         [] e = ".jpeg" -> "image/jpeg"
         [] e = ".png" -> "image/png"
         [] e = ".gif" -> "image/gif"
         [] e = ".bmp" -> "image/bmp"
         [] e = ".webp" -> "image/webp"]

\* lines 214-224
getMimeType(extension) ==
    IF ToLowerCase(extension) \in DOMAIN mimeTypes
    THEN mimeTypes[ToLowerCase(extension)]
    ELSE "application/octet-stream"

ImageViewAfter(total, imageData) ==
    [buffer |-> 0, byteOffset |-> total + Len(imageData), byteLength |-> Len(imageData)]

\* lines 108-112
ImageView(total, imageData) ==
    [buffer |-> 0, byteOffset |-> total, byteLength |-> Len(imageData)]

\* lines 115-117
EmbeddedImage(image, bufferViewIndex, mimeType) ==
    With(With(Without(image, "uri"), "bufferView", bufferViewIndex),
         "mimeType", mimeType)

-----------------------------------------------------------------------------
(* convertGLTFToGLB, one action per loop iteration and per block.          *)

\* lines 54-84, iteration i of the buffer loop
ProcessBuffer ==
    /\ pc = "buffers"
    /\ Has(modifiedGltf, "buffers")
    /\ i < Len(modifiedGltf.buffers)
    /\ LET buffer == modifiedGltf.buffers[i + 1]
           bufferPath == PathJoin(buffer.uri)
       IN IF IsExternal(buffer) /\ existsSync(bufferPath)
          THEN LET bufferData == readFileSync(bufferPath)
                   patched == RetargetViews(modifiedGltf, i, totalSize)
               IN /\ binaryChunks' = Pushed(binaryChunks, totalSize, bufferData)
                  /\ totalSize' = Advanced(totalSize, bufferData)
                  /\ modifiedGltf' =
                        [patched EXCEPT !["buffers"][i + 1] = Without(buffer, "uri")]
          ELSE UNCHANGED <<binaryChunks, totalSize, modifiedGltf>>
    /\ i' = i + 1
    /\ UNCHANGED <<folder, gltfData, pc, cleanGltf, glbBuffer, batchVars>>

\* lines 53 and 86-92: the end of the buffer block
EndBuffers ==
    /\ pc = "buffers"
    /\ Has(modifiedGltf, "buffers") => i = Len(modifiedGltf.buffers)
    /\ modifiedGltf' =
          IF Has(modifiedGltf, "buffers") /\ Len(modifiedGltf.buffers) > 0
          THEN [modifiedGltf EXCEPT !["buffers"] = <<[byteLength |-> totalSize]>>]
          ELSE modifiedGltf
    /\ pc' = "images"
    /\ i' = 0
    /\ UNCHANGED <<folder, gltfData, binaryChunks, totalSize, cleanGltf, glbBuffer,
                   batchVars>>

\* lines 96-130, iteration i of the image loop
ProcessImage ==
    /\ pc = "images"
    /\ Has(modifiedGltf, "images")
    /\ i < Len(modifiedGltf.images)
    /\ LET image == modifiedGltf.images[i + 1]
           imagePath == PathJoin(image.uri)
       IN IF IsExternal(image) /\ existsSync(imagePath)
          THEN LET imageData == readFileSync(imagePath)
                   mimeType == getMimeType(ExtName(image.uri))
                   views == Members(modifiedGltf, "bufferViews")
                   bufferViewIndex == Len(views)
                   withView == With(modifiedGltf, "bufferViews",
                                    Append(views, ImageView(totalSize, imageData)))
               IN /\ modifiedGltf' =
                        [withView EXCEPT !["images"][i + 1] =
                            EmbeddedImage(image, bufferViewIndex, mimeType)]
                  /\ binaryChunks' = Pushed(binaryChunks, totalSize, imageData)
                  /\ totalSize' = Advanced(totalSize, imageData)
          ELSE UNCHANGED <<binaryChunks, totalSize, modifiedGltf>>
    /\ i' = i + 1
    /\ UNCHANGED <<folder, gltfData, pc, cleanGltf, glbBuffer, batchVars>>

\* lines 95 and 133-136: the end of the image block, the final buffer size
Finalize ==
    /\ pc = "images"
    /\ Has(modifiedGltf, "images") => i = Len(modifiedGltf.images)
    /\ modifiedGltf' =
          IF Has(modifiedGltf, "buffers") /\ Len(modifiedGltf.buffers) > 0
          THEN [modifiedGltf EXCEPT !["buffers"][1] =
                   With(@, "byteLength", totalSize)]
          ELSE modifiedGltf
    /\ pc' = "emit"
    /\ UNCHANGED <<folder, gltfData, binaryChunks, totalSize, i, cleanGltf,
                   glbBuffer, batchVars>>

\* lines 138-146: concatenate, frame, write
Emit ==
    /\ pc = "emit"
    /\ cleanGltf' = Clean(modifiedGltf)
    /\ glbBuffer' = createGLB(modifiedGltf, Concat(binaryChunks))
    /\ pc' = "done"
    /\ UNCHANGED <<folder, gltfData, modifiedGltf, binaryChunks, totalSize, i,
                   batchVars>>

-----------------------------------------------------------------------------
(* The inputs of one conversion.                                           *)

Folder ==
    [f \in {"a.bin", "b.bin", "t.png", "u.JPG", "v.tga"} |->
       CASE f = "a.bin" -> Fill(10, 161)
         [] f = "b.bin" -> Fill(8, 178)
         [] f = "t.png" -> Fill(7, 137)
         [] f = "u.JPG" -> Fill(5, 255)
         [] f = "v.tga" -> Fill(1, 84)]

DataBufferUri == "data:;base64,AAAAAAAA"

BufferChoices ==
    { [uri |-> f, byteLength |-> Len(Folder[f])] : f \in {"a.bin", "b.bin"} }
      \cup { [uri |-> "missing.bin", byteLength |-> 8],
             [uri |-> DataBufferUri, byteLength |-> 6],
             [byteLength |-> 6] }

ImageChoices ==
    { [uri |-> u] : u \in {"t.png", "u.JPG", "v.tga", "missing.png",
                           "data:image/png;base64,AAAA"} }

SeqsUpTo(S, n) == UNION { [1..m -> S] : m \in 0..n }

\* views that lie within the declared bytes of the buffer they reference
ViewChoices(buffers) ==
    UNION { { [buffer |-> b - 1, byteLength |-> buffers[b].byteLength],
              [buffer |-> b - 1, byteOffset |-> 5,
               byteLength |-> buffers[b].byteLength - 5] } : b \in 1..Len(buffers) }

\* a member that may be absent: the empty sequence, or the value in a sequence
Optional(S) == {<<>>} \cup { <<x>> : x \in S }

Document(asset, buffers, bufferViews, images) ==
    LET present == {m \in {"asset", "buffers", "bufferViews", "images"} :
                       CASE m = "asset" -> asset # <<>>
                         [] m = "buffers" -> buffers # <<>>
                         [] m = "bufferViews" -> bufferViews # <<>>
                         [] m = "images" -> images # <<>>}
    IN [m \in present |->
          CASE m = "asset" -> asset[1]
            [] m = "buffers" -> buffers[1]
            [] m = "bufferViews" -> bufferViews[1]
            [] m = "images" -> images[1]]

Count(optional) == IF optional = <<>> THEN 0 ELSE Len(optional[1])

\* every document of at most MaxItems buffers, buffer views and images together
InputDocuments ==
    UNION { UNION { { Document(<<[version |-> "2.0"]>>, bs, vs, is) :
                        is \in Optional(SeqsUpTo(ImageChoices,
                                                 MaxItems - Count(bs) - Count(vs))) } :
                     vs \in Optional(SeqsUpTo(
                              ViewChoices(IF bs = <<>> THEN <<>> ELSE bs[1]),
                              MaxItems - Count(bs))) } :
            bs \in Optional(SeqsUpTo(BufferChoices, MaxItems)) }

BatchIdle ==
    /\ listing = <<>>
    /\ gltfFiles = <<>>
    /\ k = 0
    /\ attempted = <<>>
    /\ logged = <<>>
    /\ bpc = "idle"

\* lines 41-50: the document is parsed and copied, nothing is collected yet
Init ==
    /\ folder = Folder
    /\ gltfData \in InputDocuments
    /\ modifiedGltf = gltfData
    /\ binaryChunks = <<>>
    /\ totalSize = 0
    /\ i = 0
    /\ pc = "buffers"
    /\ cleanGltf = EmptyObject
    /\ glbBuffer = <<>>
    /\ BatchIdle

Next ==
    \/ ProcessBuffer
    \/ EndBuffers
    \/ ProcessImage
    \/ Finalize
    \/ Emit

Spec == Init /\ [][Next]_vars

-----------------------------------------------------------------------------
(* createGLB on its own: any document, any binary region.                  *)

WriterAssets ==
    Optional({ [generator |-> "gen"], [version |-> "2.0"],
               [generator |-> "gen", version |-> "1.0"] })

WriterDocuments(n) ==
    { Document(asset, bs, <<>>, <<>>) :
        asset \in WriterAssets, bs \in Optional({ <<[byteLength |-> n]>> }) }

WriterInit ==
    /\ folder = Folder
    /\ \E n \in 0..MaxBinLen :
          /\ gltfData \in WriterDocuments(n)
          /\ binaryChunks = << Fill(n, 7) >>
          /\ totalSize = n
    /\ modifiedGltf = gltfData
    /\ i = 0
    /\ pc = "emit"
    /\ cleanGltf = EmptyObject
    /\ glbBuffer = <<>>
    /\ BatchIdle

WriterNext == Emit

WriterSpec == WriterInit /\ [][WriterNext]_vars

-----------------------------------------------------------------------------
(* convertAll (lines 19-38).  Whether one conversion throws (the file is   *)
(* not valid JSON, the output cannot be written) is the environment's      *)
(* choice.                                                                 *)

DirectoryNames == {"a.gltf", "b.gltf", "c.GLTF", "a.bin"}

Listings ==
    { l \in SeqsUpTo(DirectoryNames, MaxFiles) :
        \A m, n \in 1..Len(l) : m # n => l[m] # l[n] }

Failures == {"invalid JSON", "write failed"}

AbortAfterThrow(position, length) == length

\* lines 34-36: the catch block logs and the loop goes on with the next file
AfterThrow(position, length) == position + 1

\* lines 20-28
ListFiles ==
    /\ bpc = "start"
    /\ gltfFiles' = SelectSeq(listing, LAMBDA file : EndsWith(file, ".gltf"))
    /\ IF Len(gltfFiles') = 0
       THEN /\ logged' = Append(logged, <<"none found">>)
            /\ bpc' = "done"
       ELSE /\ logged' = Append(logged, <<"found", Len(gltfFiles')>>)
            /\ bpc' = "loop"
    /\ UNCHANGED <<listing, k, attempted, convVars>>

\* lines 30-33: the conversion returns
ConvertSucceeds ==
    /\ bpc = "loop"
    /\ k < Len(gltfFiles)
    /\ attempted' = Append(attempted, gltfFiles[k + 1])
    /\ logged' = Append(logged, <<"converted", gltfFiles[k + 1]>>)
    /\ k' = k + 1
    /\ UNCHANGED <<listing, gltfFiles, bpc, convVars>>

\* lines 30-36: the conversion throws
ConvertThrows ==
    /\ bpc = "loop"
    /\ k < Len(gltfFiles)
    /\ \E error \in Failures :
          logged' = Append(logged, <<"failed", gltfFiles[k + 1], error>>)
    /\ attempted' = Append(attempted, gltfFiles[k + 1])
    /\ k' = AfterThrow(k, Len(gltfFiles))
    /\ UNCHANGED <<listing, gltfFiles, bpc, convVars>>

\* line 37-38: the loop is over
Return ==
    /\ bpc = "loop"
    /\ k = Len(gltfFiles)
    /\ bpc' = "done"
    /\ UNCHANGED <<listing, gltfFiles, k, attempted, logged, convVars>>

BatchInit ==
    /\ folder = Folder
    /\ gltfData = EmptyObject
    /\ modifiedGltf = EmptyObject
    /\ binaryChunks = <<>>
    /\ totalSize = 0
    /\ i = 0
    /\ pc = "idle"
    /\ cleanGltf = EmptyObject
    /\ glbBuffer = <<>>
    /\ listing \in Listings
    /\ gltfFiles = <<>>
    /\ k = 0
    /\ attempted = <<>>
    /\ logged = <<>>
    /\ bpc = "start"

BatchNext ==
    \/ ListFiles
    \/ ConvertSucceeds
    \/ ConvertThrows
    \/ Return

\* the loop is sequential code of one process: a step that can be taken is taken
BatchSpec == BatchInit /\ [][BatchNext]_vars /\ WF_vars(BatchNext)

-----------------------------------------------------------------------------
(* What the properties read: the input as it was, and the container as a   *)
(* reader of the file would parse it.                                      *)

OrigBuffers == Members(gltfData, "buffers")
OrigViews == Members(gltfData, "bufferViews")
OrigImages == Members(gltfData, "images")
Views == Members(modifiedGltf, "bufferViews")

FilePresent(o) == IsExternal(o) /\ o.uri \in DOMAIN folder
FileMissing(o) == IsExternal(o) /\ o.uri \notin DOMAIN folder

RoundUp4(n) == ((n + 3) \div 4) * 4

\* the resources in the order the conversion visits them
Resources == OrigBuffers \o OrigImages

\* the bytes taken by the first n resources: only files that exist count
RECURSIVE RegionAfter(_)
RegionAfter(n) ==
    IF n = 0 THEN 0
    ELSE RegionAfter(n - 1)
           + (IF FilePresent(Resources[n])
              THEN RoundUp4(Len(folder[Resources[n].uri])) ELSE 0)

\* the number of resources the conversion has been through
Visited ==
    CASE pc = "buffers" -> i
      [] pc = "images" -> Len(OrigBuffers) + i
      [] OTHER -> Len(Resources)

PresentAmong(n) == Cardinality({r \in 1..n : FilePresent(Resources[r])})

\* 0-based buffer b begins where the buffers before it end
BufferStart(b) == RegionAfter(b)

\* 1-based image m begins where the buffers and the images before it end
ImageStart(m) == RegionAfter(Len(OrigBuffers) + m - 1)

OffsetOf(view) == IF Has(view, "byteOffset") THEN view.byteOffset ELSE 0

Region == Concat(binaryChunks)

IsData(chunk) == chunk # <<>> /\ chunk[1] # 0

ChunkOffset(n) == SumLen(SubSeq(binaryChunks, 1, n - 1))

ChunkLengths == [n \in 1..Len(binaryChunks) |-> Len(binaryChunks[n])]

TotalLengthField == ReadUInt32LE(glbBuffer, 8)
JsonChunkLength == ReadUInt32LE(glbBuffer, 12)
JsonPayload == SubSeq(glbBuffer, 21, 20 + JsonChunkLength)
HasBinChunk == Len(glbBuffer) > 20 + JsonChunkLength
BinChunkLength == ReadUInt32LE(glbBuffer, 20 + JsonChunkLength)
BinPayload == SubSeq(glbBuffer, 29 + JsonChunkLength, Len(glbBuffer))

\* the JSON payload is this text followed by 0 to 3 spaces
PayloadIsText(text) ==
    LET bytes == Utf8(text)
    IN /\ JsonChunkLength - Len(bytes) \in 0..3
       /\ JsonPayload = bytes \o Fill(JsonChunkLength - Len(bytes), 32)

-----------------------------------------------------------------------------
\* C1: for every document and every binary region handed to createGLB, the
\* total-length field at bytes 8..11 equals the number of bytes returned,
\* which is 12 + 8 + the padded JSON length, plus 8 + the padded binary
\* length exactly when the region is not empty; both padded lengths are
\* multiples of 4.
C1_TotalLengthIsByteCount ==
    pc = "done" =>
      /\ TotalLengthField = Len(glbBuffer)
      /\ JsonChunkLength % 4 = 0
      /\ PayloadIsText(JSONStringify(cleanGltf))
      /\ IF Region = <<>>
         THEN Len(glbBuffer) = 12 + 8 + JsonChunkLength
         ELSE /\ HasBinChunk
              /\ BinChunkLength % 4 = 0
              /\ BinChunkLength = RoundUp4(Len(Region))
              /\ Len(BinPayload) = BinChunkLength
              /\ Len(glbBuffer) = 12 + 8 + JsonChunkLength + 8 + BinChunkLength

\* an empty region was framed: no BIN chunk, a JSON chunk that needed padding
C1_Witness ==
    /\ pc = "done"
    /\ Region = <<>>
    /\ Len(glbBuffer) = 20 + JsonChunkLength
    /\ glbBuffer[Len(glbBuffer)] = 32
    /\ TotalLengthField = Len(glbBuffer)

\* C2 (as stated): after the conversion of a document whose views lie within
\* their buffers, every view has buffer 0 and ends inside the consolidated
\* region, whatever the buffers and images are.
ViewsWithinBuffers ==
    \A v \in 1..Len(OrigViews) :
       /\ OrigViews[v].buffer + 1 \in 1..Len(OrigBuffers)
       /\ OffsetOf(OrigViews[v]) + OrigViews[v].byteLength
             <= OrigBuffers[OrigViews[v].buffer + 1].byteLength

C2_AllViewsInRegion ==
    (pc = "done" /\ ViewsWithinBuffers) =>
       \A v \in 1..Len(Views) :
          /\ Views[v].buffer = 0
          /\ OffsetOf(Views[v]) + Views[v].byteLength <= Len(Region)

\* C3 (as stated): the segments, padding included, add up to the byteLength
\* of the single buffer of the patched document and to the BIN payload, for
\* every input that carries binary data or had a buffer.
C3_SegmentsEqualBufferAndBin ==
    pc = "done" =>
      /\ (IF HasBinChunk THEN Len(BinPayload) ELSE 0) = SumLen(binaryChunks)
      /\ (SumLen(binaryChunks) > 0 \/ Len(OrigBuffers) > 0) =>
            /\ Has(cleanGltf, "buffers")
            /\ Len(cleanGltf.buffers) = 1
            /\ cleanGltf.buffers[1].byteLength = SumLen(binaryChunks)

\* C4: every data segment starts at a multiple of 4; what follows it (the
\* next data segment, or the end) is at its offset plus its length rounded
\* up to a multiple of 4, the gap being zero bytes; the running total is a
\* multiple of 4 after every resource.
C4_SegmentsAligned ==
    /\ totalSize % 4 = 0
    /\ totalSize = SumLen(binaryChunks)
    /\ \A n \in 1..Len(binaryChunks) :
          IF IsData(binaryChunks[n])
          THEN /\ ChunkOffset(n) % 4 = 0
               /\ LET padded == n < Len(binaryChunks) /\ ~IsData(binaryChunks[n + 1])
                      after == ChunkOffset(n) + Len(binaryChunks[n])
                                 + (IF padded THEN Len(binaryChunks[n + 1]) ELSE 0)
                  IN after = RoundUp4(ChunkOffset(n) + Len(binaryChunks[n]))
          ELSE /\ n > 1
               /\ IsData(binaryChunks[n - 1])
               /\ Len(binaryChunks[n]) \in 1..3
               /\ \A j \in 1..Len(binaryChunks[n]) : binaryChunks[n][j] = 0

\* two files back to back (8 bytes, no padding), then 5 bytes and 3 of padding
C4_Witness ==
    /\ pc = "done"
    /\ ChunkLengths = <<8, 5, 3>>
    /\ IsData(binaryChunks[1]) /\ IsData(binaryChunks[2]) /\ ~IsData(binaryChunks[3])

\* C5 (as stated): a document whose buffers and images all use data: URIs
\* comes out with no BIN chunk and with a JSON chunk that is, up to trailing
\* spaces, the serialization of the input document.
OnlyDataUris ==
    /\ \A b \in 1..Len(OrigBuffers) :
          Has(OrigBuffers[b], "uri") => StartsWith(OrigBuffers[b].uri, "data:")
    /\ \A m \in 1..Len(OrigImages) :
          Has(OrigImages[m], "uri") => StartsWith(OrigImages[m].uri, "data:")

C5_DataUriDocumentUnchanged ==
    (pc = "done" /\ OnlyDataUris) =>
       /\ ~HasBinChunk
       /\ PayloadIsText(JSONStringify(gltfData))
       /\ Members(cleanGltf, "buffers") = OrigBuffers
       /\ Members(cleanGltf, "bufferViews") = OrigViews
       /\ Members(cleanGltf, "images") = OrigImages

\* C6: a buffer or an image whose file is missing adds no segment and no
\* padding and leaves the running total alone; the views of a missing buffer
\* keep their buffer index and byteOffset, a missing image keeps its uri and
\* gets no bufferView or mimeType; the conversion goes on to emit a container.
\* short of "done", one of the steps of the conversion can be taken
CanProceed ==
    CASE pc = "buffers" -> Has(modifiedGltf, "buffers") => i <= Len(modifiedGltf.buffers)
      [] pc = "images" -> Has(modifiedGltf, "images") => i <= Len(modifiedGltf.images)
      [] OTHER -> pc \in {"emit", "done"}

C6_MissingFilesSkipped ==
    /\ totalSize = RegionAfter(Visited)
    /\ Cardinality({n \in 1..Len(binaryChunks) : IsData(binaryChunks[n])})
          = PresentAmong(Visited)
    /\ \A v \in 1..Len(OrigViews) :
          FileMissing(OrigBuffers[OrigViews[v].buffer + 1]) => Views[v] = OrigViews[v]
    /\ \A m \in 1..Len(OrigImages) :
          FileMissing(OrigImages[m]) => modifiedGltf.images[m] = OrigImages[m]
    /\ CanProceed
    /\ pc = "done" => TotalLengthField = Len(glbBuffer)

\* a view with a byteOffset on a missing buffer, beside a buffer that was
\* embedded, in a conversion that emitted its container
C6_Witness ==
    /\ pc = "done"
    /\ Len(glbBuffer) > 0
    /\ \E v \in 1..Len(OrigViews) :
          /\ FileMissing(OrigBuffers[OrigViews[v].buffer + 1])
          /\ Has(OrigViews[v], "byteOffset")
          /\ Views[v] = OrigViews[v]
    /\ \E b \in 1..Len(OrigBuffers) : FilePresent(OrigBuffers[b])

\* C9: a view of an external buffer whose file exists ends with buffer 0 and
\* its own byteOffset (0 if absent) plus the offset at which that buffer's
\* bytes begin; it is moved when its buffer is processed and never again.
C9_ViewsShiftedOnce ==
    \A v \in 1..Len(OrigViews) :
       LET b == OrigViews[v].buffer
       IN FilePresent(OrigBuffers[b + 1]) =>
            IF pc = "buffers" /\ i <= b
            THEN Views[v] = OrigViews[v]
            ELSE /\ Views[v].buffer = 0
                 /\ Views[v].byteOffset = OffsetOf(OrigViews[v]) + BufferStart(b)
                 /\ Views[v].byteLength = OrigViews[v].byteLength

\* the view {buffer: 1, byteOffset: 5} behind a first buffer of 8 bytes
C9_Witness ==
    /\ pc = "done"
    /\ Len(OrigBuffers) = 2
    /\ FilePresent(OrigBuffers[1]) /\ FilePresent(OrigBuffers[2])
    /\ BufferStart(1) = 8
    /\ \E v \in 1..Len(OrigViews) :
          /\ OrigViews[v].buffer = 1
          /\ OffsetOf(OrigViews[v]) = 5
          /\ Views[v].buffer = 0
          /\ Views[v].byteOffset = 13

\* C10: an external image whose file exists gets one new view appended,
\* {buffer 0, byteOffset = the running total when it is processed,
\* byteLength = file size}, its bufferView is that new index, its mimeType
\* is set and its uri removed; the views that were there keep their place
\* and content; any other image is left as it was.
ExpectedMimeType(uri) ==
    CASE uri = "t.png" -> "image/png"
      [] uri = "u.JPG" -> "image/jpeg"
      [] uri = "v.tga" -> "application/octet-stream"

ImagesVisited == IF pc \in {"buffers", "idle"} THEN 0
                 ELSE IF pc = "images" THEN i ELSE Len(OrigImages)

ViewAfterBuffers(v) ==
    LET b == OrigViews[v].buffer
    IN IF FilePresent(OrigBuffers[b + 1])
       THEN [buffer |-> 0,
             byteOffset |-> OffsetOf(OrigViews[v]) + BufferStart(b),
             byteLength |-> OrigViews[v].byteLength]
       ELSE OrigViews[v]

C10_ImagesEmbedded ==
    /\ Len(Views) = Len(OrigViews)
          + Cardinality({m \in 1..ImagesVisited : FilePresent(OrigImages[m])})
    /\ pc # "buffers" => \A v \in 1..Len(OrigViews) : Views[v] = ViewAfterBuffers(v)
    /\ \A m \in 1..Len(OrigImages) :
          LET image == modifiedGltf.images[m]
              index == Len(OrigViews)
                         + Cardinality({n \in 1..(m - 1) : FilePresent(OrigImages[n])})
          IN IF FilePresent(OrigImages[m]) /\ m <= ImagesVisited
             THEN /\ DOMAIN image = {"bufferView", "mimeType"}
                  /\ image.bufferView = index
                  /\ image.mimeType = ExpectedMimeType(OrigImages[m].uri)
                  /\ Views[index + 1] =
                        [buffer |-> 0, byteOffset |-> ImageStart(m),
                         byteLength |-> Len(folder[OrigImages[m].uri])]
             ELSE image = OrigImages[m]

\* buffer0 of 10 bytes and image0 of 7 bytes: [10][2][7][1], byteLength 20,
\* the new view {buffer: 0, byteOffset: 12, byteLength: 7}
C10_Witness ==
    /\ pc = "done"
    /\ OrigBuffers = <<[uri |-> "a.bin", byteLength |-> 10]>>
    /\ OrigImages = <<[uri |-> "t.png"]>>
    /\ ChunkLengths = <<10, 2, 7, 1>>
    /\ modifiedGltf.buffers = <<[byteLength |-> 20]>>
    /\ Views[Len(Views)] = [buffer |-> 0, byteOffset |-> 12, byteLength |-> 7]
    /\ modifiedGltf.images[1] =
          [bufferView |-> Len(Views) - 1, mimeType |-> "image/png"]

\* C8 (as stated): the serialized document always has asset.version: "2.0"
\* when the input has none (asset absent, or asset without a version), the
\* input's own otherwise; the caller's document is not changed.
C8_AssetVersionEnsured ==
    pc = "done" =>
      /\ modifiedGltf = gltfData
      /\ PayloadIsText(JSONStringify(cleanGltf))
      /\ Has(cleanGltf, "asset")
      /\ Has(cleanGltf.asset, "version")
      /\ cleanGltf.asset.version =
            (IF Has(gltfData, "asset") /\ Has(gltfData.asset, "version")
             THEN gltfData.asset.version ELSE "2.0")

\* C7: every .gltf file of the listing is attempted exactly once, in listing
\* order; a conversion that throws ends that file only, is not retried and
\* does not stop the later files; the batch reaches the end of the list.
AttemptedInOrder ==
    /\ k <= Len(gltfFiles)
    /\ attempted = SubSeq(gltfFiles, 1, k)
    /\ \A m, n \in 1..Len(attempted) : m # n => attempted[m] # attempted[n]
    /\ bpc = "done" =>
          /\ attempted = gltfFiles
          /\ gltfFiles = SelectSeq(listing, LAMBDA file : EndsWith(file, ".gltf"))

C7_BatchAttemptsEveryFileOnce == []AttemptedInOrder /\ <>(bpc = "done")

\* the first of two files threw and the second was still converted
C7_Witness ==
    /\ bpc = "done"
    /\ Len(gltfFiles) = 2
    /\ attempted = gltfFiles
    /\ logged[2][1] = "failed"
    /\ logged[3] = <<"converted", gltfFiles[2]>>

=============================================================================
